---- MODULE Spec2Model ----
(***************************************************************************)
(* A state-machine model of the files_manager API: the user registry, the  *)
(* session store (Redis), the files collection (MongoDB), the blobs on     *)
(* disk, the thumbnail queue and the request handlers of AuthController,   *)
(* UsersController and FilesController.  Every handler is one action: it   *)
(* computes its response with a ...Resp operator (the handler's chain of   *)
(* checks and early returns) and applies the handler's writes.             *)
(***************************************************************************)
EXTENDS Integers, Sequences, FiniteSets, TLC

\* ------------------------------------------------------------------ bounds
MaxUsers == 2
MaxTokens == 2
MaxFiles == 2
MaxPage == 2
MaxListed == 22
MaxRequests == 2

\* ------------------------------------------------------- program constants
pageSize == 20
SessionTTL == 86400
NoToken == 0
allowedSizes == {"500", "250", "100"}
acceptedTypes == {"folder", "file", "image"}

\* ------------------------------------------------------------------ values
\* An ObjectId is <<collection, n>>: n-th document inserted in the collection.
UserOid(i) == <<"u", i>>
FileOid(i) == <<"f", i>>

\* A string that ObjectId() accepts is [k |-> "hex", oid, form]: the canonical
\* 24 lower-case hex digits that toString() prints, or another spelling of the
\* same twelve bytes (upper-case hex, or the 12-character raw form).
HexStr(o, f) == [k |-> "hex", oid |-> o, form |-> f]
toString(o) == HexStr(o, "canon")
\* A string ObjectId() rejects (it throws), such as "0" or "zz".
BadStr(s) == [k |-> "str", s |-> s]
\* The JSON number 0: the default of parentId in the request body.
Root == [k |-> "num0"]

ObjectIdThrows(v) == v.k # "hex"
ObjectId(v) == v.oid

\* sha1, the password digest: injective and opaque.
sha1(p) == <<"sha1", p>>

\* Strings that are split or tested for emptiness are sequences of characters
\* (an e-mail address is one character here: it holds no ':').
EmptyStr == <<>>
Emails == {<<"e1">>, <<"e2">>}
Passwords == {<<"a">>, <<"a", ":", "b">>}

\* String.prototype.split(sep): the list of the pieces between separators.
RECURSIVE split(_, _)
split(s, sep) ==
  IF \A i \in 1..Len(s) : s[i] # sep THEN <<s>>
  ELSE LET i == CHOOSE j \in 1..Len(s) :
                  s[j] = sep /\ \A h \in 1..(j - 1) : s[h] # sep
       IN <<SubSeq(s, 1, i - 1)>> \o split(SubSeq(s, i + 1, Len(s)), sep)

\* Array destructuring: a missing element is undefined, which is falsy like
\* the empty string.
Elem(parts, i) == IF i <= Len(parts) THEN parts[i] ELSE EmptyStr

\* base64 text is [b64 |-> bytes, pad |-> ...]; Buffer.from(x, 'base64')
\* ignores the padding, so two texts decode to the same bytes.
B64(b, p) == [b64 |-> b, pad |-> p]
FromBase64(x) == x.b64

\* ------------------------------------------------------------------- state
VARIABLES
  users,     \* the users collection, in insertion order
  sessions,  \* the session store: token -> user id string, or Nil
  issued,    \* for each token generated so far, the user it was issued to
  files,     \* the files collection, in insertion order
  disk,      \* the storage folder: path -> bytes
  queue,     \* fileQueue: the jobs not yet acknowledged
  sent,      \* history: the bytes each create carried, by position in files
  last,      \* the last request (handler, token, id parameter) and its response
  inflight,  \* the requests suspended at an await, by request slot
  down,      \* the stores whose calls fail at present
  dbc        \* the document-store client: its connection state and handle

vars == <<users, sessions, issued, files, disk, queue, sent, last, inflight, down, dbc>>

Nil == [k |-> "nil"]
Tokens == 1..MaxTokens
Requests == 1..MaxRequests
Stores == {"redis", "db", "queue", "disk"}

\* DBClient after construction (the connect is pending) and once the connect
\* has resolved.
Constructed == [phase |-> "pending", connected |-> FALSE, db |-> "undefined", timer |-> FALSE]
Connected == [phase |-> "resolved", connected |-> TRUE, db |-> "handle", timer |-> FALSE]

Init ==
  /\ users = <<>>
  /\ sessions = [t \in Tokens |-> Nil]
  /\ issued = <<>>
  /\ files = <<>>
  /\ disk = [p \in {} |-> Nil]
  /\ queue = <<>>
  /\ sent = <<>>
  /\ last = [op |-> "listen", token |-> NoToken, id |-> Nil, status |-> 0, body |-> Nil]
  /\ inflight = [r \in Requests |-> Nil]
  /\ down = {}
  /\ dbc = Connected

Resp(status, body) == [status |-> status, body |-> body]
Err(status, msg) == Resp(status, [error |-> msg])
\* An exception that no try block catches: the promise of the handler is
\* rejected and no response is sent.
Uncaught(what) == Resp(-1, [throws |-> what])

Reply(op, token, id, r) ==
  last' = [op |-> op, token |-> token, id |-> id, status |-> r.status, body |-> r.body]

\* ------------------------------------------------------------------ faults
\* redisClient.get / set / del reject.
redisFails == "redis" \in down
\* dbClient.db.collection(..) throws (db is undefined or null), or the call
\* on the collection rejects.
dbFails == dbc.db # "handle" \/ "db" \in down

\* ----------------------------------------------------------- session store
\* redisClient.get(`auth_${token}`): the stored value, or null.
redisGet(token) ==
  IF token \in Tokens /\ sessions[token] # Nil THEN sessions[token].value ELSE Nil

\* ------------------------------------------------------------ document store
UserIds == {UserOid(i) : i \in 1..Len(users)}
FileIds == {FileOid(i) : i \in 1..Len(files)}
UserDoc(o) == users[o[2]]
FileDoc(o) == files[o[2]]

\* db.collection('users').findOne(query): the first matching document's _id.
FirstUser(hits) ==
  IF hits = {} THEN Nil
  ELSE [k |-> "doc", id |-> UserOid(CHOOSE i \in hits : \A j \in hits : i <= j)]
\* findOne({ email })
FindByEmail(email) == FirstUser({i \in 1..Len(users) : users[i].email = email})
\* findOne({ email, password })
FindByCredentials(email, hash) ==
  FirstUser({i \in 1..Len(users) : users[i].email = email /\ users[i].password = hash})

\* ---------------------------------------------------------- UsersController
PostNewResp(email, password) ==
  IF email = EmptyStr THEN Err(400, "Missing email")
  ELSE IF password = EmptyStr THEN Err(400, "Missing password")
  ELSE IF dbFails THEN Err(500, "Internal server error")
  ELSE IF FindByEmail(email) # Nil THEN Err(400, "Already exist")
  ELSE Resp(201, [id |-> toString(UserOid(Len(users) + 1)), email |-> email])

PostNew(email, password) ==
  LET r == PostNewResp(email, password) IN
  /\ r.status = 201 => Len(users) < MaxUsers
  /\ users' = IF r.status = 201
              THEN Append(users, [email |-> email, password |-> sha1(password)])
              ELSE users
  /\ Reply("postNew", NoToken, Nil, r)
  /\ UNCHANGED <<sessions, issued, files, disk, queue, sent, inflight, down, dbc>>

\* postNew as it runs: the handler is suspended at `await findOne` and at
\* `await insertOne`, and other requests run in between.  PostNewFind is the
\* handler up to the result of findOne, PostNewInsert the rest.
PostNewFind(r, email, password) ==
  /\ inflight[r] = Nil
  /\ IF email = EmptyStr \/ password = EmptyStr \/ dbFails
     THEN /\ Reply("postNew", NoToken, Nil, PostNewResp(email, password))
          /\ UNCHANGED inflight
     ELSE /\ inflight' = [inflight EXCEPT ![r] =
                            [op |-> "postNew", email |-> email, password |-> password,
                             existingUser |-> FindByEmail(email)]]
          /\ UNCHANGED last
  /\ UNCHANGED <<users, sessions, issued, files, disk, queue, sent, down, dbc>>

PostNewInsertResp(r) ==
  IF inflight[r].existingUser # Nil THEN Err(400, "Already exist")
  ELSE IF dbFails THEN Err(500, "Internal server error")
  ELSE Resp(201, [id |-> toString(UserOid(Len(users) + 1)),
                  email |-> inflight[r].email])

PostNewInsert(r) ==
  /\ inflight[r] # Nil
  /\ PostNewInsertResp(r).status = 201 => Len(users) < MaxUsers
  /\ users' = IF PostNewInsertResp(r).status = 201
              THEN Append(users, [email |-> inflight[r].email,
                                  password |-> sha1(inflight[r].password)])
              ELSE users
  /\ inflight' = [inflight EXCEPT ![r] = Nil]
  /\ Reply("postNew", NoToken, Nil, PostNewInsertResp(r))
  /\ UNCHANGED <<sessions, issued, files, disk, queue, sent, down, dbc>>

\* getMe calls redisClient.get, but the module never imports redisClient: with
\* a token in the header the handler throws a ReferenceError before it answers.
GetMeResp(token) ==
  IF token = NoToken THEN Err(401, "Unauthorized")
  ELSE Uncaught("ReferenceError: redisClient is not defined")

GetMe(token) ==
  /\ Reply("getMe", token, Nil, GetMeResp(token))
  /\ UNCHANGED <<users, sessions, issued, files, disk, queue, sent, inflight, down, dbc>>

\* ----------------------------------------------------------- AuthController
NoHeader == [scheme |-> "none"]
Basic(cred) == [scheme |-> "Basic", cred |-> B64(cred, TRUE)]

\* The user the credentials select: the e-mail and the password are the first
\* two pieces of the decoded text split at ':'.
ConnectEmail(h) == Elem(split(FromBase64(h.cred), ":"), 1)
ConnectPassword(h) == Elem(split(FromBase64(h.cred), ":"), 2)

ConnectUser(h) == FindByCredentials(ConnectEmail(h), sha1(ConnectPassword(h)))

\* uuidv4(): a token never generated before.
FreshToken == Len(issued) + 1

GetConnectResp(h) ==
  IF h.scheme # "Basic" THEN Err(401, "Unauthorized")
  ELSE IF ConnectEmail(h) = EmptyStr \/ ConnectPassword(h) = EmptyStr
       THEN Err(401, "Unauthorized")
  ELSE IF dbFails THEN Err(500, "Internal server error")
  ELSE IF ConnectUser(h) = Nil THEN Err(401, "Unauthorized")
  ELSE IF redisFails THEN Err(500, "Internal server error")
  ELSE Resp(200, [token |-> FreshToken])

GetConnect(h) ==
  LET r == GetConnectResp(h) IN
  /\ r.status = 200 => FreshToken \in Tokens
  /\ IF r.status = 200
     THEN /\ sessions' = [sessions EXCEPT ![FreshToken] =
                            [k |-> "session", value |-> toString(ConnectUser(h).id),
                             ttl |-> SessionTTL]]
          /\ issued' = Append(issued, ConnectUser(h).id)
     ELSE UNCHANGED <<sessions, issued>>
  /\ Reply("getConnect", NoToken, Nil, r)
  /\ UNCHANGED <<users, files, disk, queue, sent, inflight, down, dbc>>

GetDisconnectResp(token) ==
  IF token = NoToken THEN Err(401, "Unauthorized")
  ELSE IF redisFails THEN Uncaught("redisClient.get rejected")
  ELSE IF redisGet(token) = Nil THEN Err(401, "Unauthorized")
  ELSE Resp(204, Nil)

GetDisconnect(token) ==
  LET r == GetDisconnectResp(token) IN
  /\ IF r.status = 204
     THEN sessions' = [sessions EXCEPT ![token] = Nil]
     ELSE UNCHANGED sessions
  /\ Reply("getDisconnect", token, Nil, r)
  /\ UNCHANGED <<users, issued, files, disk, queue, sent, inflight, down, dbc>>

\* The key's time to live runs out: Redis drops it.
Expire(token) ==
  /\ token \in Tokens
  /\ sessions[token] # Nil
  /\ sessions' = [sessions EXCEPT ![token] = Nil]
  /\ UNCHANGED <<users, issued, files, disk, queue, sent, last, inflight, down, dbc>>

\* SETEX: the key lives for the seconds given when it was set. After secs
\* seconds every key has that much less to live, and a key with nothing left
\* is gone.
TickLen == 43200
Elapse(store, secs) ==
  [t \in DOMAIN store |->
     IF store[t] = Nil THEN Nil
     ELSE IF store[t].ttl <= secs THEN Nil
     ELSE [store[t] EXCEPT !.ttl = @ - secs]]

Tick ==
  /\ \E t \in Tokens : sessions[t] # Nil
  /\ sessions' = Elapse(sessions, TickLen)
  /\ UNCHANGED <<users, issued, files, disk, queue, sent, last, inflight, down, dbc>>

\* ---------------------------------------------------------- FilesController
NoName == ""
NoType == ""
NoData == [k |-> "none"]
NoSize == ""

\* The token check that opens every handler of FilesController: the user id
\* string stored for the token, or Nil (401).
Auth(token) == IF token = NoToken THEN Nil ELSE redisGet(token)

existsSync(p) == p \in DOMAIN disk
writeFileSync(d, p, bytes) == [q \in DOMAIN d \cup {p} |-> IF q = p THEN bytes ELSE d[q]]

\* path.join(folderPath, uuidv4()): a file name never generated before.
FreshPath == <<Cardinality({p \in DOMAIN disk : Len(p) = 1}) + 1>>
\* `${localPath}_${size}`
thumbnailPath(localPath, size) == Append(localPath, size)

\* The node as the handlers print it (localPath is never part of it).
NodeJson(id, userId, d) ==
  [id |-> id, userId |-> userId, name |-> d.name, type |-> d.type,
   isPublic |-> d.isPublic, parentId |-> d.parentId]
FileJson(o) == NodeJson(toString(o), toString(FileDoc(o).userId), FileDoc(o))

\* The parent check without the test of the parent's type.
ParentCheck_AnyKind(parentId) ==
  IF parentId = Root THEN Nil
  ELSE IF ObjectIdThrows(parentId) THEN Err(400, "Parent not found")
  ELSE IF ObjectId(parentId) \notin FileIds THEN Err(400, "Parent not found")
  ELSE Nil

\* Lines 63-81 of postUpload: the parent named by the body, when it is not 0.
ParentCheck(parentId) ==
  IF parentId = Root THEN Nil
  ELSE IF ObjectIdThrows(parentId) \/ dbFails THEN Err(400, "Parent not found")
  ELSE IF ObjectId(parentId) \notin FileIds THEN Err(400, "Parent not found")
  ELSE IF FileDoc(ObjectId(parentId)).type # "folder" THEN Err(400, "Parent is not a folder")
  ELSE Nil

\* A document that carries a localPath whatever its type.
fileDocument_WithPath(userId, b) ==
  [userId |-> ObjectId(userId), name |-> b.name, type |-> b.type,
   isPublic |-> b.isPublic, parentId |-> b.parentId, localPath |-> FreshPath]

fileDocument(userId, b) ==
  [userId |-> ObjectId(userId), name |-> b.name, type |-> b.type,
   isPublic |-> b.isPublic, parentId |-> b.parentId]

NewFileOid == FileOid(Len(files) + 1)

\* The type looked at before the name.
PostUploadResp_TypeFirst(token, b, fsOk) ==
  IF token = NoToken THEN Err(401, "Unauthorized")
  ELSE IF redisFails THEN Uncaught("redisClient.get rejected")
  ELSE IF Auth(token) = Nil THEN Err(401, "Unauthorized")
  ELSE IF b.type \notin acceptedTypes THEN Err(400, "Missing type")
  ELSE IF b.name = NoName THEN Err(400, "Missing name")
  ELSE IF b.data = NoData /\ b.type # "folder" THEN Err(400, "Missing data")
  ELSE IF ParentCheck(b.parentId) # Nil THEN ParentCheck(b.parentId)
  ELSE IF b.type # "folder" /\ ~fsOk THEN Err(500, "Internal server error")
  ELSE IF dbFails THEN Uncaught("insertOne rejected")
  ELSE Resp(201, NodeJson(toString(NewFileOid), Auth(token), b))

PostUploadResp(token, b, fsOk) ==
  IF token = NoToken THEN Err(401, "Unauthorized")
  ELSE IF redisFails THEN Uncaught("redisClient.get rejected")
  ELSE IF Auth(token) = Nil THEN Err(401, "Unauthorized")
  ELSE IF b.name = NoName THEN Err(400, "Missing name")
  ELSE IF b.type \notin acceptedTypes THEN Err(400, "Missing type")
  ELSE IF b.data = NoData /\ b.type # "folder" THEN Err(400, "Missing data")
  ELSE IF ParentCheck(b.parentId) # Nil THEN ParentCheck(b.parentId)
  ELSE IF b.type # "folder" /\ ~fsOk THEN Err(500, "Internal server error")
  ELSE IF dbFails THEN Uncaught("insertOne rejected")
  ELSE Resp(201, NodeJson(toString(NewFileOid), Auth(token), b))

\* An insert that does not wait for the parent check.
UploadFiles_BeforeParentCheck(token, b, fsOk) ==
  IF PostUploadResp(token, b, fsOk).status \notin {201, 400} THEN files
  ELSE IF PostUploadResp(token, b, fsOk).status = 400
          /\ PostUploadResp(token, b, fsOk).body.error
               \notin {"Parent not found", "Parent is not a folder"} THEN files
  ELSE IF b.type = "folder" THEN Append(files, fileDocument(Auth(token), b))
  ELSE Append(files, fileDocument(Auth(token), b) @@ [localPath |-> FreshPath])

\* What a create writes: insertOne, writeFileSync and fileQueue.add.
UploadFiles(token, b, fsOk) ==
  IF PostUploadResp(token, b, fsOk).status # 201 THEN files
  ELSE IF b.type = "folder" THEN Append(files, fileDocument(Auth(token), b))
  ELSE Append(files, fileDocument(Auth(token), b) @@ [localPath |-> FreshPath])

\* The base64 padding written to disk along with the decoded bytes.
UploadDisk_Padded(token, b, fsOk) ==
  IF PostUploadResp(token, b, fsOk).status = 201 /\ b.type # "folder"
  THEN writeFileSync(disk, FreshPath,
                     b.data.b64 \o (IF b.data.pad THEN <<"=">> ELSE <<>>))
  ELSE disk

UploadDisk(token, b, fsOk) ==
  IF /\ b.type # "folder"
     /\ \/ PostUploadResp(token, b, fsOk).status = 201
        \/ PostUploadResp(token, b, fsOk) = Uncaught("insertOne rejected")
  THEN writeFileSync(disk, FreshPath, FromBase64(b.data))
  ELSE disk

\* A job for every upload that has bytes.
UploadQueue_EveryBlob(token, b, fsOk) ==
  IF PostUploadResp(token, b, fsOk).status = 201 /\ b.type # "folder" /\ "queue" \notin down
  THEN Append(queue, [userId |-> Auth(token), fileId |-> toString(NewFileOid)])
  ELSE queue

UploadQueue(token, b, fsOk) ==
  IF PostUploadResp(token, b, fsOk).status = 201 /\ b.type = "image" /\ "queue" \notin down
  THEN Append(queue, [userId |-> Auth(token), fileId |-> toString(NewFileOid)])
  ELSE queue

PostUpload(token, b, fsOk) ==
  /\ files' = UploadFiles(token, b, fsOk)
  /\ disk' = UploadDisk(token, b, fsOk)
  /\ queue' = UploadQueue(token, b, fsOk)
  /\ sent' = IF PostUploadResp(token, b, fsOk).status # 201 THEN sent
             ELSE Append(sent, IF b.type = "folder" THEN Nil ELSE FromBase64(b.data))
  /\ Reply("postUpload", token, Nil, PostUploadResp(token, b, fsOk))
  /\ UNCHANGED <<users, sessions, issued, inflight, down, dbc>>

\* A lookup by _id alone.
OwnedFile_AnyUser(fileId, userId) ==
  IF ObjectIdThrows(fileId) THEN Nil
  ELSE IF ObjectId(fileId) \notin FileIds THEN Nil
  ELSE [k |-> "doc", id |-> ObjectId(fileId)]

\* findOne({_id: ObjectId(fileId), userId: ObjectId(userId)})
OwnedFile(fileId, userId) ==
  IF ObjectIdThrows(fileId) THEN Nil
  ELSE IF ObjectId(fileId) \notin FileIds THEN Nil
  ELSE IF FileDoc(ObjectId(fileId)).userId # ObjectId(userId) THEN Nil
  ELSE [k |-> "doc", id |-> ObjectId(fileId)]

GetShowResp(token, fileId) ==
  IF token = NoToken THEN Err(401, "Unauthorized")
  ELSE IF redisFails THEN Uncaught("redisClient.get rejected")
  ELSE IF Auth(token) = Nil THEN Err(401, "Unauthorized")
  ELSE IF dbFails THEN Err(404, "Not found")
  ELSE IF OwnedFile(fileId, Auth(token)) = Nil THEN Err(404, "Not found")
  ELSE Resp(200, FileJson(ObjectId(fileId)))

\* A lookup that renews the session it finds (a sliding expiry).
GetShow_Touch(token, fileId) ==
  /\ Reply("getShow", token, fileId, GetShowResp(token, fileId))
  /\ sessions' = IF Auth(token) = Nil THEN sessions
                 ELSE [sessions EXCEPT ![token].ttl = SessionTTL]
  /\ UNCHANGED <<users, issued, files, disk, queue, sent, inflight, down, dbc>>

GetShow(token, fileId) ==
  /\ Reply("getShow", token, fileId, GetShowResp(token, fileId))
  /\ UNCHANGED <<users, sessions, issued, files, disk, queue, sent, inflight, down, dbc>>

\* req.query.parentId || 0
NoParam == [k |-> "absent"]
QueryParent(q) == IF q = NoParam THEN Root ELSE q

\* A query without the owner.
IndexQuery_AnyOwner(userId, parentId, d) ==
  parentId # Root => d.parentId = parentId

\* The query of getIndex: the owner always, the parent only when it is not 0.
IndexQuery(userId, parentId, d) ==
  /\ d.userId = ObjectId(userId)
  /\ parentId # Root => d.parentId = parentId

RECURSIVE SelectIds(_, _, _)
SelectIds(userId, parentId, n) ==
  IF n = 0 THEN <<>>
  ELSE SelectIds(userId, parentId, n - 1) \o
       (IF IndexQuery(userId, parentId, files[n]) THEN <<FileOid(n)>> ELSE <<>>)

\* find(query).skip(skip).limit(pageSize).toArray()
Window(s, skip, limit) ==
  IF skip >= Len(s) THEN <<>>
  ELSE SubSeq(s, skip + 1, IF skip + limit < Len(s) THEN skip + limit ELSE Len(s))

GetIndexResp(token, q, page) ==
  IF token = NoToken THEN Err(401, "Unauthorized")
  ELSE IF redisFails THEN Uncaught("redisClient.get rejected")
  ELSE IF Auth(token) = Nil THEN Err(401, "Unauthorized")
  ELSE IF dbFails THEN Uncaught("find rejected")
  ELSE LET hits == SelectIds(Auth(token), QueryParent(q), Len(files))
           shown == Window(hits, page * pageSize, pageSize)
       IN Resp(200, [i \in 1..Len(shown) |-> FileJson(shown[i])])

GetIndex(token, q, page) ==
  /\ Reply("getIndex", token, q, GetIndexResp(token, q, page))
  /\ UNCHANGED <<users, sessions, issued, files, disk, queue, sent, inflight, down, dbc>>

\* putPublish and putUnpublish: one findOneAndUpdate that sets isPublic.
SetPublicResp(token, fileId, value) ==
  IF token = NoToken THEN Err(401, "Unauthorized")
  ELSE IF redisFails THEN Uncaught("redisClient.get rejected")
  ELSE IF Auth(token) = Nil THEN Err(401, "Unauthorized")
  ELSE IF dbFails THEN Err(404, "Not found")
  ELSE IF OwnedFile(fileId, Auth(token)) = Nil THEN Err(404, "Not found")
  ELSE Resp(200, [FileJson(ObjectId(fileId)) EXCEPT !.isPublic = value])

SetPublic(op, token, fileId, value) ==
  LET r == SetPublicResp(token, fileId, value) IN
  /\ files' = IF r.status = 200
              THEN [files EXCEPT ![ObjectId(fileId)[2]].isPublic = value]
              ELSE files
  /\ Reply(op, token, fileId, r)
  /\ UNCHANGED <<users, sessions, issued, disk, queue, sent, inflight, down, dbc>>

PutPublish(token, fileId) == SetPublic("putPublish", token, fileId, TRUE)
PutUnpublish(token, fileId) == SetPublic("putUnpublish", token, fileId, FALSE)

\* A permission check that shows a file to its owner only, public or not.
MayRead_OwnerOnly(d, token) ==
  /\ Auth(token) # Nil
  /\ toString(d.userId) = Auth(token)

\* Lines 427-446 of getFile: a private file is shown to its owner only.
MayRead(d, token) ==
  \/ d.isPublic
  \/ /\ Auth(token) # Nil
     /\ toString(d.userId) = Auth(token)

\* The size validated for every type, not for images alone.
FileData_SizeForAll(d, size) ==
  IF d.type = "folder" THEN Err(400, "A folder doesn't have content")
  ELSE IF "localPath" \notin DOMAIN d \/ ~existsSync(d.localPath) THEN Err(404, "Not found")
  ELSE IF size # NoSize
  THEN IF size \notin allowedSizes THEN Err(400, "Invalid size parameter")
       ELSE IF existsSync(thumbnailPath(d.localPath, size))
       THEN Resp(200, [content |-> disk[thumbnailPath(d.localPath, size)]])
       ELSE Err(404, "Not found")
  ELSE Resp(200, [content |-> disk[d.localPath]])

\* The original sent when the thumbnail asked for is missing.
FileData_FallBack(d, size) ==
  IF d.type = "folder" THEN Err(400, "A folder doesn't have content")
  ELSE IF "localPath" \notin DOMAIN d \/ ~existsSync(d.localPath) THEN Err(404, "Not found")
  ELSE IF size # NoSize /\ d.type = "image"
  THEN IF size \notin allowedSizes THEN Err(400, "Invalid size parameter")
       ELSE IF existsSync(thumbnailPath(d.localPath, size))
       THEN Resp(200, [content |-> disk[thumbnailPath(d.localPath, size)]])
       ELSE Resp(200, [content |-> disk[d.localPath]])
  ELSE Resp(200, [content |-> disk[d.localPath]])

\* Lines 448-495 of getFile, for a document the requester may read.
FileData(d, size) ==
  IF d.type = "folder" THEN Err(400, "A folder doesn't have content")
  ELSE IF "localPath" \notin DOMAIN d \/ ~existsSync(d.localPath) THEN Err(404, "Not found")
  ELSE IF size # NoSize /\ d.type = "image"
  THEN IF size \notin allowedSizes THEN Err(400, "Invalid size parameter")
       ELSE IF existsSync(thumbnailPath(d.localPath, size))
       THEN Resp(200, [content |-> disk[thumbnailPath(d.localPath, size)]])
       ELSE Err(404, "Not found")
  ELSE Resp(200, [content |-> disk[d.localPath]])

\* fs.readFileSync(filePath) throws.
ReadFails(r) == r.status = 200 /\ "disk" \in down

\* The folder test made before the permission test.
GetFileResp_KindFirst(token, fileId, size) ==
  IF ObjectIdThrows(fileId) THEN Err(404, "Not found")
  ELSE IF ObjectId(fileId) \notin FileIds THEN Err(404, "Not found")
  ELSE IF FileDoc(ObjectId(fileId)).type = "folder"
  THEN Err(400, "A folder doesn't have content")
  ELSE IF ~MayRead(FileDoc(ObjectId(fileId)), token) THEN Err(404, "Not found")
  ELSE FileData(FileDoc(ObjectId(fileId)), size)

GetFileResp(token, fileId, size) ==
  IF ObjectIdThrows(fileId) \/ dbFails THEN Err(404, "Not found")
  ELSE IF ObjectId(fileId) \notin FileIds THEN Err(404, "Not found")
  ELSE IF /\ ~FileDoc(ObjectId(fileId)).isPublic
          /\ token # NoToken
          /\ redisFails THEN Uncaught("redisClient.get rejected")
  ELSE IF ~MayRead(FileDoc(ObjectId(fileId)), token) THEN Err(404, "Not found")
  ELSE IF ReadFails(FileData(FileDoc(ObjectId(fileId)), size))
  THEN Uncaught("readFileSync threw")
  ELSE FileData(FileDoc(ObjectId(fileId)), size)

GetFile(token, fileId, size) ==
  /\ Reply("getFile", token, fileId, GetFileResp(token, fileId, size))
  /\ UNCHANGED <<users, sessions, issued, files, disk, queue, sent, inflight, down, dbc>>

\* ------------------------------------------------------------------ worker
\* The thumbnail worker's code is not among the source files; it is modelled
\* from the design: it looks the job's file up by (fileId, userId), fails the
\* job if that is no image with a blob, else writes `${localPath}_${size}` for
\* the sizes whose generation succeeds, and removes the job once acknowledged.
resize(bytes, size) == <<"thumbnail", size>> \o bytes

JobFile(job) ==
  IF OwnedFile(job.fileId, job.userId) = Nil THEN Nil
  ELSE IF FileDoc(ObjectId(job.fileId)).type # "image" THEN Nil
  ELSE IF "localPath" \notin DOMAIN FileDoc(ObjectId(job.fileId)) THEN Nil
  ELSE FileDoc(ObjectId(job.fileId))

RECURSIVE WriteThumbs(_, _, _)
WriteThumbs(d, localPath, sizes) ==
  IF sizes = {} THEN d
  ELSE LET s == CHOOSE x \in sizes : TRUE
       IN WriteThumbs(writeFileSync(d, thumbnailPath(localPath, s),
                                    resize(d[localPath], s)),
                      localPath, sizes \ {s})

ProcessJob(done, ack) ==
  /\ queue # <<>>
  /\ LET f == JobFile(Head(queue)) IN
     IF f = Nil \/ ~existsSync(f.localPath)
     THEN /\ queue' = Tail(queue)
          /\ UNCHANGED disk
     ELSE /\ disk' = WriteThumbs(disk, f.localPath, done)
          /\ queue' = IF ack THEN Tail(queue) ELSE queue
  /\ UNCHANGED <<users, sessions, issued, files, sent, last, inflight, down, dbc>>

\* postUpload of a file or image, step by step: the handler is suspended at
\* `await insertOne`, after writeFileSync has returned.
\* The checks before the write have passed.
ReachesWrite(token, b, fsOk) ==
  /\ b.type # "folder"
  /\ \/ PostUploadResp(token, b, fsOk).status = 201
     \/ PostUploadResp(token, b, fsOk) = Uncaught("insertOne rejected")

\* Nothing on disk when insertOne is called.
WriteBlob_Deferred(b) == disk

\* fs.writeFileSync(localPath, Buffer.from(data, 'base64'))
WriteBlob(b) == writeFileSync(disk, FreshPath, FromBase64(b.data))

PostUploadWrite(r, token, b, fsOk) ==
  /\ inflight[r] = Nil
  /\ IF ReachesWrite(token, b, fsOk)
     THEN /\ Cardinality({p \in DOMAIN disk : Len(p) = 1}) < MaxFiles
          /\ disk' = WriteBlob(b)
          /\ inflight' = [inflight EXCEPT ![r] =
                            [op |-> "postUpload", token |-> token, userId |-> Auth(token),
                             b |-> b, localPath |-> FreshPath]]
          /\ UNCHANGED <<files, queue, sent, last>>
     ELSE /\ PostUploadResp(token, b, fsOk).status = 201 => Len(files) < MaxFiles
          /\ PostUpload(token, b, fsOk)
  /\ UNCHANGED <<users, sessions, issued, down, dbc>>

PostUploadInsertResp(r) ==
  IF dbFails THEN Uncaught("insertOne rejected")
  ELSE Resp(201, NodeJson(toString(NewFileOid), inflight[r].userId, inflight[r].b))

PostUploadInsert(r) ==
  /\ inflight[r] # Nil
  /\ inflight[r].op = "postUpload"
  /\ IF PostUploadInsertResp(r).status = 201
     THEN /\ Len(files) < MaxFiles
          /\ files' = Append(files, fileDocument(inflight[r].userId, inflight[r].b)
                                      @@ [localPath |-> inflight[r].localPath])
          /\ sent' = Append(sent, FromBase64(inflight[r].b.data))
          /\ queue' = IF inflight[r].b.type = "image" /\ "queue" \notin down
                      THEN Append(queue, [userId |-> inflight[r].userId,
                                          fileId |-> toString(NewFileOid)])
                      ELSE queue
     ELSE UNCHANGED <<files, sent, queue>>
  /\ inflight' = [inflight EXCEPT ![r] = Nil]
  /\ Reply("postUpload", inflight[r].token, Nil, PostUploadInsertResp(r))
  /\ UNCHANGED <<users, sessions, issued, disk, down, dbc>>

\* putPublish / putUnpublish, step by step: the handler is suspended at
\* `await redisClient.get` and at `await findOneAndUpdate`; the store applies
\* the find-and-update of one request at a time.
\* The document findOneAndUpdate hands back with returnOriginal (the document
\* as it was before the update).
UpdatedJson_Original(o, value) == FileJson(o)

\* { returnDocument: 'after' }: the document as the update left it.
UpdatedJson(o, value) == [FileJson(o) EXCEPT !.isPublic = value]

\* Up to the call of findOneAndUpdate.
SetPublicStart(r, op, token, fileId) ==
  /\ inflight[r] = Nil
  /\ IF token = NoToken \/ redisFails \/ Auth(token) = Nil
     THEN /\ Reply(op, token, fileId, SetPublicResp(token, fileId, op = "putPublish"))
          /\ UNCHANGED inflight
     ELSE /\ inflight' = [inflight EXCEPT ![r] =
                            [op |-> op, token |-> token, userId |-> Auth(token),
                             fileId |-> fileId, value |-> (op = "putPublish"),
                             phase |-> "update", file |-> Nil]]
          /\ UNCHANGED last
  /\ UNCHANGED <<users, sessions, issued, files, disk, queue, sent, down, dbc>>

\* findOneAndUpdate({_id, userId}, {$set: {isPublic}}) at the store.
SetPublicUpdate(r) ==
  /\ inflight[r] # Nil
  /\ inflight[r].op \in {"putPublish", "putUnpublish"}
  /\ inflight[r].phase = "update"
  /\ IF dbFails \/ OwnedFile(inflight[r].fileId, inflight[r].userId) = Nil
     THEN /\ inflight' = [inflight EXCEPT ![r].phase = "reply"]
          /\ UNCHANGED files
     ELSE /\ files' = [files EXCEPT ![ObjectId(inflight[r].fileId)[2]].isPublic =
                                      inflight[r].value]
          /\ inflight' = [inflight EXCEPT ![r].phase = "reply",
                                          ![r].file = UpdatedJson(ObjectId(inflight[r].fileId),
                                                                  inflight[r].value)]
  /\ UNCHANGED <<users, sessions, issued, disk, queue, sent, last, down, dbc>>

\* After the await: 404 without a document, 200 with the document handed back.
SetPublicReplyResp(r) ==
  IF inflight[r].file = Nil THEN Err(404, "Not found")
  ELSE Resp(200, inflight[r].file)

SetPublicReply(r) ==
  /\ inflight[r] # Nil
  /\ inflight[r].op \in {"putPublish", "putUnpublish"}
  /\ inflight[r].phase = "reply"
  /\ Reply(inflight[r].op, inflight[r].token, inflight[r].fileId, SetPublicReplyResp(r))
  /\ inflight' = [inflight EXCEPT ![r] = Nil]
  /\ UNCHANGED <<users, sessions, issued, files, disk, queue, sent, down, dbc>>

\* ---------------------------------------------------------------- DBClient
\* isAlive(): return this.connected
isAlive == dbc.connected

\* client.connect() resolves: the .then callback.
DbConnectResolved ==
  /\ dbc.phase = "pending"
  /\ dbc' = [phase |-> "resolved", connected |-> TRUE, db |-> "handle", timer |-> FALSE]
  /\ UNCHANGED <<users, sessions, issued, files, disk, queue, sent, last, inflight, down>>

\* client.connect() rejects: the .catch callback, which arms a 3 s timer.
DbConnectRejected ==
  /\ dbc.phase = "pending"
  /\ dbc' = [phase |-> "rejected", connected |-> FALSE, db |-> "null", timer |-> TRUE]
  /\ UNCHANGED <<users, sessions, issued, files, disk, queue, sent, last, inflight, down>>

\* The callback of setTimeout(.., 3000).
DbTimer ==
  /\ dbc.timer
  /\ dbc' = [dbc EXCEPT !.connected = TRUE, !.timer = FALSE]
  /\ UNCHANGED <<users, sessions, issued, files, disk, queue, sent, last, inflight, down>>

\* A store becomes unreachable (one at a time), or reachable again.
Fail(s) ==
  /\ down = {}
  /\ down' = down \cup {s}
  /\ UNCHANGED <<users, sessions, issued, files, disk, queue, sent, last, inflight, dbc>>

Recover(s) ==
  /\ s \in down
  /\ down' = down \ {s}
  /\ UNCHANGED <<users, sessions, issued, files, disk, queue, sent, last, inflight, dbc>>

\* ------------------------------------------------------------------ inputs
\* A token the server never generated.
UnknownToken == MaxTokens + 1
TokenInputs == {NoToken} \cup Tokens
AnyToken == TokenInputs \cup {UnknownToken}

AuthHeaders ==
  {NoHeader} \cup {Basic(e) : e \in Emails}
  \cup {Basic(e \o <<":">> \o p) : e \in Emails, p \in Passwords}

CanonIds == {toString(FileOid(i)) : i \in 1..MaxFiles}
IdInputs == CanonIds \cup {HexStr(FileOid(1), "alias"), BadStr("zz")}
ParentInputs == {Root} \cup IdInputs
QueryInputs == {NoParam, BadStr("0"), HexStr(FileOid(1), "alias")} \cup CanonIds
SizeInputs == {NoSize, "999"} \cup allowedSizes

Body(name, type, parentId, isPublic, data) ==
  [name |-> name, type |-> type, parentId |-> parentId, isPublic |-> isPublic,
   data |-> data]

\* Well-formed bodies of every type, under every parent.
GoodBodies ==
  {Body("cat.png", ty, pa, pub, IF ty = "folder" THEN NoData ELSE B64(<<"A">>, TRUE)) :
     ty \in acceptedTypes, pa \in ParentInputs, pub \in BOOLEAN}
\* Bodies with a missing name, a missing or unknown type, missing data and a
\* bad parent, alone and together.
DefectBodies ==
  {Body(na, ty, pa, FALSE, da) :
     na \in {NoName, "cat.png"}, ty \in {NoType, "video", "file"},
     pa \in {Root, BadStr("zz")}, da \in {NoData, B64(<<"A">>, TRUE)}}
Bodies == GoodBodies \cup DefectBodies
\* Files and images at the root, with three base64 texts of two contents.
BlobBodies ==
  {Body("cat.png", ty, Root, FALSE, da) :
     ty \in {"file", "image"}, da \in {B64(<<"A">>, TRUE), B64(<<"A">>, FALSE), B64(<<"B">>, TRUE)}}

\* ---------------------------------------------------------- specifications
\* Spec: the server from its start, every handler of the three controllers,
\* creates limited to folders at the root.
FolderBody == Body("docs", "folder", Root, FALSE, NoData)
FirstId == toString(FileOid(1))
NestedBody == Body("docs", "folder", FirstId, FALSE, NoData)

\* A create, in a collection that holds at most max documents and on a disk
\* that holds at most max uploaded blobs.
Create(token, b, fsOk, max) ==
  /\ PostUploadResp(token, b, fsOk).status = 201 => Len(files) < max
  /\ UploadDisk(token, b, fsOk) # disk => Cardinality({p \in DOMAIN disk : Len(p) = 1}) < max
  /\ PostUpload(token, b, fsOk)

Next ==
  \/ \E e \in Emails \cup {EmptyStr}, p \in Passwords \cup {EmptyStr} : PostNew(e, p)
  \/ \E h \in AuthHeaders : GetConnect(h)
  \/ \E t \in AnyToken : GetDisconnect(t)
  \/ \E t \in AnyToken : GetMe(t)
  \/ \E t \in Tokens : Expire(t)
  \/ \E t \in AnyToken : Create(t, FolderBody, TRUE, MaxFiles)
  \/ \E t \in AnyToken : GetShow(t, FirstId)
  \/ \E t \in AnyToken : GetIndex(t, NoParam, 0)
  \/ \E t \in AnyToken : PutPublish(t, FirstId)
  \/ \E t \in AnyToken : PutUnpublish(t, FirstId)
  \/ \E t \in AnyToken : GetFile(t, FirstId, NoSize)

Spec == Init /\ [][Next]_vars

\* SpecFiles: the file handlers, from the state in which two users have
\* registered and each has connected once (a state Spec reaches).
Session(o) == [k |-> "session", value |-> toString(o), ttl |-> SessionTTL]

InitFiles ==
  /\ users = <<[email |-> <<"e1">>, password |-> sha1(<<"a">>)],
               [email |-> <<"e2">>, password |-> sha1(<<"a">>)]>>
  /\ sessions = [t \in Tokens |-> IF t <= 2 THEN Session(UserOid(t)) ELSE Nil]
  /\ issued = <<UserOid(1), UserOid(2)>>
  /\ files = <<>>
  /\ disk = [p \in {} |-> Nil]
  /\ queue = <<>>
  /\ sent = <<>>
  /\ last = [op |-> "getConnect", token |-> NoToken, id |-> Nil, status |-> 200,
             body |-> [token |-> 2]]
  /\ inflight = [r \in Requests |-> Nil]
  /\ down = {}
  /\ dbc = Connected

NextFiles ==
  \/ \E t \in Tokens, b \in Bodies : Create(t, b, TRUE, MaxFiles)
  \/ \E b \in {FolderBody, Body(NoName, NoType, BadStr("zz"), FALSE, NoData)} :
       Create(NoToken, b, TRUE, MaxFiles)
  \/ \E t \in Tokens, b \in BlobBodies : Create(t, b, FALSE, MaxFiles)
  \/ \E t \in TokenInputs, f \in IdInputs : GetShow(t, f)
  \/ \E t \in TokenInputs, q \in QueryInputs, p \in {0, 1} : GetIndex(t, q, p)
  \/ \E t \in TokenInputs, f \in IdInputs : PutPublish(t, f)
  \/ \E t \in TokenInputs, f \in IdInputs : PutUnpublish(t, f)
  \/ \E t \in AnyToken, f \in IdInputs, s \in {NoSize, "999", "100"} : GetFile(t, f, s)

SpecFiles == InitFiles /\ [][NextFiles]_vars

\* SpecThumb: the first user's uploads of files and images at the root, the
\* worker with every outcome per size and with redelivery, and the data
\* endpoint for every requester.
NextThumb ==
  \/ \E b \in BlobBodies : Create(1, b, TRUE, MaxFiles)
  \/ \E done \in SUBSET allowedSizes, ack \in BOOLEAN : ProcessJob(done, ack)
  \/ \E t \in AnyToken, f \in IdInputs, s \in SizeInputs : GetFile(t, f, s)

SpecThumb == InitFiles /\ [][NextThumb]_vars

\* SpecList: the first user creates a folder and fills it with more nodes
\* than a page holds, and both users list the root and the folder, page by
\* page.
NextList ==
  \/ Create(1, IF files = <<>> THEN FolderBody ELSE NestedBody, TRUE, MaxListed)
  \/ \E t \in Tokens, q \in {NoParam, BadStr("0"), FirstId}, p \in 0..MaxPage :
       GetIndex(t, q, p)

SpecList == InitFiles /\ [][NextList]_vars

\* SpecRace: registrations that interleave at their store calls, and the
\* sessions opened for the registered users.
NextRace ==
  \/ \E r \in Requests, e \in Emails \cup {EmptyStr}, p \in Passwords \cup {EmptyStr} :
       PostNewFind(r, e, p)
  \/ \E r \in Requests : PostNewInsert(r)
  \/ \E h \in AuthHeaders : GetConnect(h)

SpecRace == Init /\ [][NextRace]_vars

\* SpecFaults: the server from its construction, with the connect of the
\* document store pending, the stores failing and recovering, and one user's
\* requests to every handler.
ImageBody == Body("cat.png", "image", Root, FALSE, B64(<<"A">>, TRUE))
TextBody == Body("a.txt", "file", Root, FALSE, B64(<<"B">>, TRUE))
FirstLogin == Basic(<<"e1", ":", "a">>)

InitBoot ==
  /\ users = <<>>
  /\ sessions = [t \in Tokens |-> Nil]
  /\ issued = <<>>
  /\ files = <<>>
  /\ disk = [p \in {} |-> Nil]
  /\ queue = <<>>
  /\ sent = <<>>
  /\ last = [op |-> "listen", token |-> NoToken, id |-> Nil, status |-> 0, body |-> Nil]
  /\ inflight = [r \in Requests |-> Nil]
  /\ down = {}
  /\ dbc = Constructed

NextFaults ==
  \/ DbConnectResolved
  \/ DbConnectRejected
  \/ DbTimer
  \/ \E s \in Stores : Fail(s)
  \/ \E s \in Stores : Recover(s)
  \/ PostNew(<<"e1">>, <<"a">>)
  \/ GetConnect(FirstLogin)
  \/ \E t \in {NoToken, 1} : GetDisconnect(t)
  \/ \E t \in {NoToken, 1} : GetMe(t)
  \/ \E t \in {NoToken, 1}, b \in {FolderBody, ImageBody, TextBody} : Create(t, b, TRUE, MaxFiles)
  \/ \E t \in {NoToken, 1} : GetShow(t, FirstId)
  \/ \E t \in {NoToken, 1} : GetIndex(t, NoParam, 0)
  \/ \E t \in {NoToken, 1} : PutPublish(t, FirstId)
  \/ \E t \in {NoToken, 1} : PutUnpublish(t, FirstId)
  \/ \E t \in {NoToken, 1} : GetFile(t, FirstId, NoSize)

SpecFaults == InitBoot /\ [][NextFaults]_vars

\* SpecWrite: uploads that are suspended between the write of the content and
\* the insert of the document, while the worker, the data endpoint and other
\* uploads run, and while the document store fails and recovers.
NextWrite ==
  \/ \E r \in Requests, b \in {FolderBody, ImageBody, TextBody} :
       PostUploadWrite(r, 1, b, TRUE)
  \/ \E r \in Requests : PostUploadInsert(r)
  \/ \E done \in {{}, allowedSizes}, ack \in BOOLEAN : ProcessJob(done, ack)
  \/ \E s \in {NoSize, "100"} : GetFile(1, FirstId, s)
  \/ Fail("db")
  \/ Recover("db")

SpecWrite == InitFiles /\ [][NextWrite]_vars

\* SpecClock: the server from its start with time passing: sessions are
\* opened, used by every handler that resolves a token, closed, and run out.
NextClock ==
  \/ PostNew(<<"e1">>, <<"a">>)
  \/ GetConnect(FirstLogin)
  \/ Tick
  \/ \E t \in AnyToken : GetDisconnect(t)
  \/ \E t \in AnyToken : GetMe(t)
  \/ \E t \in AnyToken, b \in {FolderBody, ImageBody} : Create(t, b, TRUE, 1)
  \/ \E t \in AnyToken : GetShow(t, FirstId)
  \/ \E t \in AnyToken : GetIndex(t, NoParam, 0)
  \/ \E t \in AnyToken : PutPublish(t, FirstId)
  \/ \E t \in AnyToken : PutUnpublish(t, FirstId)
  \/ \E t \in AnyToken : GetFile(t, FirstId, NoSize)

SpecClock == Init /\ [][NextClock]_vars

\* SpecToggle: the first user creates nodes and both users' publish and
\* unpublish requests for the first node interleave at their store calls.
NextToggle ==
  \/ \E b \in {FolderBody, ImageBody} : Create(1, b, TRUE, MaxFiles)
  \/ \E r \in Requests, op \in {"putPublish", "putUnpublish"}, t \in TokenInputs :
       SetPublicStart(r, op, t, FirstId)
  \/ \E r \in Requests : SetPublicUpdate(r)
  \/ \E r \in Requests : SetPublicReply(r)

SpecToggle == InitFiles /\ [][NextToggle]_vars

\* ------------------------------------------------------------------ claims
\* The id string names the i-th document of the files collection.
Names(id, i) == id.k = "hex" /\ id.oid = FileOid(i) /\ i \in 1..Len(files)
\* The token's session belongs to the owner of the i-th document.
IsOwner(token, i) == Auth(token) # Nil /\ Auth(token) = toString(files[i].userId)
\* The token was generated and its session is gone (revoked or expired).
Revoked(token) == token \in 1..Len(issued) /\ sessions[token] = Nil

\* C1, first part: a token with a session resolves to the id of the user
\* whose credentials the /connect request carried.
C1_Resolves ==
  \A t \in Tokens : sessions[t] # Nil =>
    /\ t <= Len(issued)
    /\ issued[t] \in UserIds
    /\ redisGet(t) = toString(issued[t])

\* C1, second part: with a revoked token every token-protected handler
\* answers 401.
C1_Revoked401 ==
  \A t \in Tokens : Revoked(t) =>
    /\ GetDisconnectResp(t).status = 401
    /\ GetMeResp(t).status = 401
    /\ \A b \in Bodies : PostUploadResp(t, b, TRUE).status = 401
    /\ \A f \in IdInputs :
         /\ GetShowResp(t, f).status = 401
         /\ SetPublicResp(t, f, TRUE).status = 401
         /\ SetPublicResp(t, f, FALSE).status = 401
    /\ \A q \in QueryInputs, p \in {0, 1} : GetIndexResp(t, q, p).status = 401

\* C1: the token lifecycle.  After every step, an active token resolves to
\* the user it was issued to and a revoked token is refused with 401 by every
\* token-protected handler; and no step gives a revoked token a session again.
C1_TokenLifecycle ==
  [][ /\ C1_Resolves'
      /\ C1_Revoked401'
      /\ \A t \in Tokens : Revoked(t) => sessions'[t] = Nil ]_vars

\* C1 as far as the code keeps it: the same, for every handler but getMe.
C1_ExceptGetMe ==
  [][ /\ C1_Resolves'
      /\ \A t \in Tokens : Revoked(t)' =>
           /\ GetDisconnectResp(t)'.status = 401
           /\ \A b \in Bodies : PostUploadResp(t, b, TRUE)'.status = 401
           /\ \A f \in IdInputs :
                /\ GetShowResp(t, f)'.status = 401
                /\ SetPublicResp(t, f, TRUE)'.status = 401
                /\ SetPublicResp(t, f, FALSE)'.status = 401
           /\ \A q \in QueryInputs, p \in {0, 1} :
                GetIndexResp(t, q, p)'.status = 401
      /\ \A t \in Tokens : Revoked(t) => sessions'[t] = Nil ]_vars

\* ------------------------------------------------------------------
\* An id string no document of the collection has.
AbsentId == toString(FileOid(Len(files) + 1))
\* The spellings under which a request can name the i-th document.
Spellings(i) == {HexStr(FileOid(i), f) : f \in {"canon", "alias"}}
Blobs == {i \in 1..Len(files) : files[i].type \in {"file", "image"}}

\* The last request was a successful visibility change of value v on node i.
Completed(op, i) == last.op = op /\ last.status = 200 /\ Names(last.id, i)

\* C2: for a file or image node and every requester other than its owner
\* (another user's token, no token, an unknown token), reading the content
\* (GET /files/:id/data) answers 404 while the node is private and 200 with
\* the content while it is public; a completed publish leaves the node
\* public, a completed unpublish leaves it private, and no other step changes
\* the visibility of a node.
C2_ReadFollowsVisibility ==
  \A i \in Blobs : \A t \in AnyToken : ~IsOwner(t, i) =>
    \A id \in Spellings(i) :
      IF files[i].isPublic
      THEN GetFileResp(t, id, NoSize) = Resp(200, [content |-> sent[i]])
      ELSE \A s \in SizeInputs : GetFileResp(t, id, s) = Err(404, "Not found")

C2_PublishSets ==
  \A i \in 1..Len(files) :
    /\ Completed("putPublish", i) => files[i].isPublic = TRUE
    /\ Completed("putUnpublish", i) => files[i].isPublic = FALSE

C2_OnlyPublishChanges ==
  \A i \in 1..Len(files) : files'[i].isPublic # files[i].isPublic =>
    /\ last'.op = IF files'[i].isPublic THEN "putPublish" ELSE "putUnpublish"
    /\ last'.status = 200
    /\ Names(last'.id, i)
    /\ IsOwner(last'.token, i)

C2_Visibility ==
  /\ [](C2_ReadFollowsVisibility /\ C2_PublishSets)
  /\ [][C2_OnlyPublishChanges]_vars

\* C2's case: the owner's publish of a file or image node has just
\* completed, and the other user's read of it now succeeds.
C2_Witness ==
  \E i \in Blobs : \E t \in Tokens :
    /\ Completed("putPublish", i)
    /\ Auth(t) # Nil /\ ~IsOwner(t, i)
    /\ GetFileResp(t, toString(FileOid(i)), NoSize).status = 200

\* C3: for every private node (folder, file or image), every requester that
\* is not its owner (no token, an unknown or expired token, another user's
\* token) and every size, the answer of GET /files/:id/data for the node's id
\* is the very answer given for an id that names no node (404 Not found).
C3_NoExistenceLeak ==
  \A i \in 1..Len(files) : files[i].isPublic = FALSE =>
    \A t \in AnyToken : ~IsOwner(t, i) =>
      \A s \in SizeInputs : \A id \in Spellings(i) :
        /\ GetFileResp(t, id, s) = GetFileResp(t, AbsentId, s)
        /\ GetFileResp(t, id, s) = GetFileResp(t, BadStr("zz"), s)
        /\ GetFileResp(t, id, s).status = 404

\* C3's case: another user's token has just been used to read a private
\* folder and a private file or image exists too.
C3_Witness ==
  /\ last.op = "getFile" /\ last.status = 404
  /\ Auth(last.token) # Nil
  /\ \E i \in 1..Len(files) :
       /\ Names(last.id, i) /\ files[i].type = "folder"
       /\ files[i].isPublic = FALSE /\ ~IsOwner(last.token, i)
  /\ \E j \in Blobs : files[j].isPublic = FALSE

\* C4: every stored node's parentId is the root sentinel 0 or the id of a
\* node that exists in the collection and is a folder.
C4_Hierarchy ==
  \A i \in 1..Len(files) :
    \/ files[i].parentId = Root
    \/ \E j \in 1..Len(files) :
         /\ Names(files[i].parentId, j)
         /\ files[j].type = "folder"

\* C4's case: a node was created inside a folder and the folder's
\* visibility was changed afterwards.
C4_Witness ==
  /\ \E i \in 1..Len(files) : files[i].parentId # Root
  /\ last.op \in {"putPublish", "putUnpublish"} /\ last.status = 200
  /\ \E j \in 1..Len(files) : Names(last.id, j) /\ files[j].type = "folder"

\* The parentId of a create names no node, or names a file or an image.
InvalidParent(parentId) ==
  /\ parentId # Root
  /\ \A j \in 1..Len(files) : Names(parentId, j) => files[j].type # "folder"

\* The create passes the checks that come before the parent check.
WellFormed(token, b) ==
  /\ Auth(token) # Nil
  /\ b.name # NoName
  /\ b.type \in acceptedTypes
  /\ b.type = "folder" \/ b.data # NoData

\* C5: a create whose parentId names no node or names a file or an image is
\* answered 400 "Parent not found" / "Parent is not a folder" (when the
\* request is authenticated and otherwise well formed; an earlier 401 or 400
\* otherwise) and changes nothing: no document, no blob, no job.
C5_InvalidParentRejected ==
  \A t \in AnyToken, b \in Bodies, fsOk \in BOOLEAN : InvalidParent(b.parentId) =>
    /\ PostUploadResp(t, b, fsOk).status \in {400, 401}
    /\ WellFormed(t, b) =>
         PostUploadResp(t, b, fsOk) =
           Err(400, IF \E j \in 1..Len(files) : Names(b.parentId, j)
                    THEN "Parent is not a folder" ELSE "Parent not found")
    /\ UploadFiles(t, b, fsOk) = files
    /\ UploadDisk(t, b, fsOk) = disk
    /\ UploadQueue(t, b, fsOk) = queue

\* C5's case: a create under a parent that is a file or an image has just
\* been refused, while the collection still has room.
C5_Witness ==
  /\ last.op = "postUpload"
  /\ last.status = 400
  /\ last.body = [error |-> "Parent is not a folder"]
  /\ Len(files) < MaxFiles

\* ------------------------------------------------------------------
\* C6: a folder's document has no localPath and a file's or image's document
\* has one; and no step removes a document or adds, removes or changes the
\* localPath of a document that exists.
C6_FolderNoRef ==
  \A i \in 1..Len(files) :
    IF files[i].type = "folder"
    THEN "localPath" \notin DOMAIN files[i]
    ELSE "localPath" \in DOMAIN files[i] /\ existsSync(files[i].localPath)

C6_RefFixed ==
  \A i \in 1..Len(files) :
    /\ i <= Len(files')
    /\ files'[i].type = files[i].type
    /\ ("localPath" \in DOMAIN files'[i]) = ("localPath" \in DOMAIN files[i])
    /\ "localPath" \in DOMAIN files[i] => files'[i].localPath = files[i].localPath

C6_StorageReference == []C6_FolderNoRef /\ [][C6_RefFixed]_vars

\* C6's case: a folder and a file or image exist and the visibility of the
\* file or image has just been changed by its owner.
C6_Witness ==
  /\ \E i \in 1..Len(files) : files[i].type = "folder"
  /\ \E j \in Blobs : Completed("putUnpublish", j)

\* The nodes of the claim's list(userId, parentId): the user's nodes whose
\* parent is the one asked for, in insertion order; parentId omitted or 0 is
\* the root.
IsRootQuery(q) == q \in {NoParam, BadStr("0")}
UnderParent(i, q) ==
  IF IsRootQuery(q) THEN files[i].parentId = Root
  ELSE \E j \in 1..Len(files) : Names(q, j) /\ Names(files[i].parentId, j)

RECURSIVE Listed(_, _, _)
Listed(userId, q, n) ==
  IF n = 0 THEN <<>>
  ELSE Listed(userId, q, n - 1) \o
       (IF toString(files[n].userId) = userId /\ UnderParent(n, q)
        THEN <<FileOid(n)>> ELSE <<>>)

Range(s) == {s[k] : k \in 1..Len(s)}

\* C7: GET /files answers with exactly the caller's nodes whose parent is the
\* parentId asked for; with parentId 0 or omitted, exactly the caller's nodes
\* at the root.
C7_ListExact ==
  \A t \in Tokens : Auth(t) # Nil =>
    \A q \in QueryInputs :
      /\ GetIndexResp(t, q, 0).status = 200
      /\ Range(GetIndexResp(t, q, 0).body)
           = {FileJson(o) : o \in Range(Listed(Auth(t), q, Len(files)))}

\* C8: page p of GET /files is the nodes at positions 20p .. 20p+19 of the
\* caller's nodes under the parent asked for, in insertion order, with
\* status 200 also past the end.
C8_Pagination ==
  \A t \in Tokens : Auth(t) # Nil =>
    \A q \in {NoParam, BadStr("0"), FirstId} : \A p \in 0..MaxPage :
      LET want == Window(Listed(Auth(t), q, Len(files)), p * pageSize, pageSize)
      IN GetIndexResp(t, q, p) = Resp(200, [k \in 1..Len(want) |-> FileJson(want[k])])

\* C8, for the listing of a folder named by its canonical id alone.
C8_UnderFolder ==
  \A t \in Tokens : Auth(t) # Nil =>
    \A p \in 0..MaxPage :
      LET want == Window(Listed(Auth(t), FirstId, Len(files)), p * pageSize, pageSize)
          n == Len(Listed(Auth(t), FirstId, Len(files)))
          left == IF n > p * pageSize THEN n - p * pageSize ELSE 0
      IN /\ GetIndexResp(t, FirstId, p) = Resp(200, [k \in 1..Len(want) |-> FileJson(want[k])])
         /\ Len(want) = IF left > pageSize THEN pageSize ELSE left

\* ------------------------------------------------------------------
Images == {i \in 1..Len(files) : files[i].type = "image"}
Supplied(size) == size # NoSize

\* C9 as stated: for a node the requester may read, GET /files/:id/data
\* answers 400 when the node is a folder and when a size outside
\* {100, 250, 500} is supplied, whatever the node's type, and sends no
\* content for such a size.
C9_Original ==
  \A i \in 1..Len(files) : \A t \in AnyToken : MayRead(files[i], t) =>
    \A s \in SizeInputs : \A id \in Spellings(i) :
      /\ files[i].type = "folder" => GetFileResp(t, id, s).status = 400
      /\ Supplied(s) /\ s \notin allowedSizes =>
           /\ GetFileResp(t, id, s).status = 400
           /\ "content" \notin DOMAIN GetFileResp(t, id, s).body

\* C9, amended: for a node the requester may read, GET /files/:id/data
\* answers 400 when the node is a folder (whatever the size) and when the
\* node is an image and a size outside {100, 250, 500} is supplied; for a
\* node of type file the size is ignored and the content is sent.
C9_SizeValidatedForImages ==
  \A i \in 1..Len(files) : \A t \in AnyToken : MayRead(files[i], t) =>
    \A s \in SizeInputs : \A id \in Spellings(i) :
      /\ files[i].type = "folder" =>
           GetFileResp(t, id, s) = Err(400, "A folder doesn't have content")
      /\ files[i].type = "image" /\ Supplied(s) /\ s \notin allowedSizes =>
           GetFileResp(t, id, s) = Err(400, "Invalid size parameter")
      /\ files[i].type = "file" =>
           GetFileResp(t, id, s) = Resp(200, [content |-> sent[i]])

\* C9's case: a size outside the set has just been refused for an image,
\* while a node of type file and a folder exist too.
C9_Witness ==
  /\ last.op = "getFile"
  /\ last.body = [error |-> "Invalid size parameter"]
  /\ \E i \in Images : Names(last.id, i) /\ MayRead(files[i], last.token)
  /\ \E j \in 1..Len(files) : files[j].type \in {"file", "folder"}

\* C10: for an image and a token of its owner, GET /files/:id/data without
\* size sends the content that was uploaded, in every state from the 201 on;
\* with a size s of {100, 250, 500} it answers 404 as long as the blob
\* <localPath>_<s> has not been written and sends that thumbnail once it has
\* been; and no step removes a blob or changes an original.
C10_OwnerReads ==
  \A i \in Images : \A t \in Tokens : IsOwner(t, i) =>
    \A id \in Spellings(i) :
      /\ GetFileResp(t, id, NoSize) = Resp(200, [content |-> sent[i]])
      /\ \A s \in allowedSizes :
           IF existsSync(thumbnailPath(files[i].localPath, s))
           THEN GetFileResp(t, id, s) = Resp(200, [content |-> resize(sent[i], s)])
           ELSE GetFileResp(t, id, s) = Err(404, "Not found")

C10_BlobsStay ==
  \A p \in DOMAIN disk :
    /\ p \in DOMAIN disk'
    /\ Len(p) = 1 => disk'[p] = disk[p]

C10_DerivativeAvailability == []C10_OwnerReads /\ [][C10_BlobsStay]_vars

\* C10's case: the owner has just been sent a thumbnail of an image of which
\* another size is still missing, and the job is still in the queue.
C10_Witness ==
  /\ last.op = "getFile" /\ last.status = 200
  /\ queue # <<>>
  /\ \E i \in Images :
       /\ Names(last.id, i) /\ IsOwner(last.token, i)
       /\ \E s \in allowedSizes : last.body = [content |-> resize(sent[i], s)]
       /\ \E s \in allowedSizes : ~existsSync(thumbnailPath(files[i].localPath, s))

\* ------------------------------------------------------------------
\* C11: round trip.  For every file or image at the root and every token of
\* its owner, whatever was created before or after it: GET /files/:id
\* answers 200 with the node as it was created (same id, owner, name, type
\* and parent), directly after the create the very body of the 201; and
\* GET /files/:id/data without size sends the bytes that the create carried.
C11_RoundTrip ==
  /\ \A i \in Blobs : files[i].parentId = Root =>
       \A t \in Tokens : IsOwner(t, i) =>
         \A id \in Spellings(i) :
           /\ GetShowResp(t, id).status = 200
           /\ GetShowResp(t, id).body.id = toString(FileOid(i))
           /\ GetShowResp(t, id).body.userId = Auth(t)
           /\ GetShowResp(t, id).body.name = files[i].name
           /\ GetShowResp(t, id).body.type = files[i].type
           /\ GetShowResp(t, id).body.parentId = Root
           /\ GetFileResp(t, id, NoSize) = Resp(200, [content |-> sent[i]])
  /\ last.op = "postUpload" /\ last.status = 201 =>
       GetShowResp(last.token, last.body.id) = Resp(200, last.body)

\* C11's case: the owner has just read the bytes of the first node, a file
\* or image at the root, after the other user created a node of their own.
C11_Witness ==
  /\ Len(files) = 2 /\ 1 \in Blobs /\ files[1].parentId = Root
  /\ files[2].userId # files[1].userId
  /\ last.op = "getFile" /\ Names(last.id, 1) /\ IsOwner(last.token, 1)
  /\ last.status = 200 /\ last.body = [content |-> sent[1]]

\* ------------------------------------------------------------------
\* C12: no two documents of the users collection have the same email, also
\* when registrations for one email interleave at findOne and insertOne.
C12_EmailUnique ==
  \A i, j \in 1..Len(users) : users[i].email = users[j].email => i = j

\* C12, for registrations that run one after the other: a POST /users with
\* an email already taken answers 400 "Already exist" and inserts nothing.
C12_TakenRefused ==
  \A e \in Emails, p \in Passwords :
    (\E i \in 1..Len(users) : users[i].email = e) =>
      PostNewResp(e, p) = Err(400, "Already exist")


\* ------------------------------------------------------------------
\* The job names the i-th document, an image of the user the job names.
JobNames(job, i) ==
  /\ Names(job.fileId, i)
  /\ files[i].type = "image"
  /\ job.userId = toString(files[i].userId)

\* C13, the jobs: every job on the queue names an existing document of kind
\* image that belongs to the user the job names, and no document has two jobs.
C13_JobsNameImages ==
  /\ \A k \in 1..Len(queue) : \E i \in 1..Len(files) : JobNames(queue[k], i)
  /\ \A k, l \in 1..Len(queue) : queue[k].fileId = queue[l].fileId => k = l

\* C13, the creates: a step that adds a document is a create answered 201;
\* when the document is an image and the queue can be reached, the step puts
\* exactly one job for the new document at the end of the queue, after the
\* document was inserted; when the queue cannot be reached, or the document is
\* a folder or a file, the queue is left as it was. A step that adds no
\* document adds no job.
C13_CreateEnqueues ==
  IF Len(files') = Len(files) + 1
  THEN /\ last'.op = "postUpload" /\ last'.status = 201
       /\ SubSeq(files', 1, Len(files)) = files
       /\ last'.body.id = toString(FileOid(Len(files')))
       /\ IF files'[Len(files')].type = "image" /\ "queue" \notin down
          THEN /\ Len(queue') = Len(queue) + 1
               /\ SubSeq(queue', 1, Len(queue)) = queue
               /\ queue'[Len(queue')] = [userId |-> last'.body.userId, fileId |-> last'.body.id]
          ELSE queue' = queue
  ELSE Len(files') = Len(files) /\ queue' = queue

\* C13: one job for each image created while the queue can be reached, put
\* on the queue after the document is inserted and naming that document and
\* its owner; no job for a folder or a file; a create whose job cannot be
\* enqueued is still answered 201 and its document stays.
C13_JobPerImage == []C13_JobsNameImages /\ [][C13_CreateEnqueues]_vars

\* C13's cases: the first image has its job, and the second image, created
\* while the queue could not be reached, has its document and the 201 but no
\* job.
C13_Witness ==
  /\ Len(files) = 2 /\ files[1].type = "image" /\ files[2].type = "image"
  /\ Len(queue) = 1 /\ JobNames(queue[1], 1)
  /\ "queue" \in down
  /\ last.op = "postUpload" /\ last.status = 201 /\ last.body.id = toString(FileOid(2))


\* ------------------------------------------------------------------
\* C14, the content: every document that carries a localPath has, under that
\* path, the whole content its create was given.
C14_Written ==
  \A i \in 1..Len(files) :
    "localPath" \in DOMAIN files[i] =>
      /\ existsSync(files[i].localPath)
      /\ disk[files[i].localPath] = sent[i]

\* C14, the originals: no step removes or rewrites what was written under an
\* original's path.
C14_OriginalKept ==
  \A p \in DOMAIN disk : Len(p) = 1 => p \in DOMAIN disk' /\ disk'[p] = disk[p]

\* C14: write-then-publish. The content is on disk before the document that
\* refers to it can be found, in every state also between the write and the
\* insert of an upload, and an original's content is never rewritten.
C14_WriteThenPublish == []C14_Written /\ [][C14_OriginalKept]_vars

\* C14's case: an upload has written its content and waits for its insert
\* while the earlier upload's document is read through the data endpoint.
C14_Witness ==
  /\ Len(files) = 1 /\ "localPath" \in DOMAIN files[1]
  /\ \E r \in Requests : inflight[r] # Nil /\ existsSync(inflight[r].localPath)
                         /\ inflight[r].localPath # files[1].localPath
  /\ last.op = "getFile" /\ last.status = 200 /\ last.body = [content |-> sent[1]]


\* ------------------------------------------------------------------
\* C15: for every registered user and every password, GET /connect with
\* Basic base64("email:password") is answered 200 with a fresh token when the
\* password is the user's, and 401 when it is not; passwords that contain
\* ':' included.
C15_Authenticate ==
  \A i \in 1..Len(users), p \in Passwords :
    LET h == Basic(users[i].email \o <<":">> \o p) IN
    IF users[i].password = sha1(p)
    THEN GetConnectResp(h) = Resp(200, [token |-> FreshToken])
    ELSE GetConnectResp(h).status = 401

\* C15, for passwords without ':': the same, and a /connect step opens
\* exactly the session token -> user id with the 86400 s time to live when it
\* answers 200, and leaves the sessions alone when it does not.
C15_ColonFree ==
  \A i \in 1..Len(users), p \in {q \in Passwords : \A k \in 1..Len(q) : q[k] # ":"} :
    users[i].password \in {sha1(q) : q \in {x \in Passwords : \A k \in 1..Len(x) : x[k] # ":"}} =>
      LET h == Basic(users[i].email \o <<":">> \o p) IN
      IF users[i].password = sha1(p)
      THEN /\ GetConnectResp(h) = Resp(200, [token |-> FreshToken])
           /\ ConnectUser(h).id = UserOid(i)
      ELSE GetConnectResp(h).status = 401

C15_ConnectStep ==
  last'.op = "getConnect" /\ last' # last =>
    IF last'.status = 200
    THEN sessions' = [sessions EXCEPT ![last'.body.token] =
                        [k |-> "session", value |-> toString(issued'[last'.body.token]),
                         ttl |-> SessionTTL]]
    ELSE sessions' = sessions

C15_SessionOpened == [][C15_ConnectStep]_vars


\* ------------------------------------------------------------------
\* C16, the sessions in a state: a session has between 1 and 86400 seconds
\* left, so it is gone 86400 seconds after the /connect that opened it.
C16_Expiry ==
  \A t \in Tokens : sessions[t] # Nil => sessions[t].ttl \in 1..SessionTTL

\* C16, the steps: the sessions change only when /connect opens a new one
\* with 86400 seconds to live, when /disconnect deletes the caller's, and
\* when time passes, which takes the same seconds from every session. A step
\* of any handler that only resolves a token leaves every session, and the
\* seconds it has left, as they were.
C16_SessionsStep ==
  sessions' # sessions =>
    \/ /\ last'.op = "getConnect" /\ last'.status = 200
       /\ sessions[last'.body.token] = Nil
       /\ sessions' = [sessions EXCEPT ![last'.body.token] =
                         [k |-> "session", value |-> toString(issued'[last'.body.token]),
                          ttl |-> SessionTTL]]
    \/ /\ last'.op = "getDisconnect" /\ last'.status = 204
       /\ sessions' = [sessions EXCEPT ![last'.token] = Nil]
    \/ /\ last' = last
       /\ sessions' = Elapse(sessions, TickLen)

\* C16: resolving a token never creates, deletes or extends a session, and a
\* session's expiry stays where /connect put it: 86400 seconds after it.
C16_ResolveFrame == []C16_Expiry /\ [][C16_SessionsStep]_vars

\* C16's case: a session that has used up part of its time has just been
\* resolved by a handler, with success, and has no more time than before.
C16_Witness ==
  /\ last.op \in {"postUpload", "getShow", "getIndex", "putPublish", "putUnpublish", "getFile"}
  /\ last.status \in {200, 201}
  /\ last.token \in Tokens /\ sessions[last.token] # Nil
  /\ sessions[last.token].ttl < SessionTTL


\* ------------------------------------------------------------------
\* The handler ended with a response, not with an exception nobody caught.
Answered(r) == r.status \in {200, 201, 204, 400, 401, 404, 500}

\* C17: whatever store fails or has no usable handle, every handler that
\* calls a store ends with a response of a defined kind. (getMe is left out:
\* it throws before it reaches a store, whether or not a store fails.)
C17_NoRawException ==
  /\ \A e \in Emails, p \in Passwords : Answered(PostNewResp(e, p))
  /\ \A h \in AuthHeaders : Answered(GetConnectResp(h))
  /\ \A t \in AnyToken :
       /\ Answered(GetDisconnectResp(t))
       /\ \A b \in {FolderBody, ImageBody, TextBody} : Answered(PostUploadResp(t, b, TRUE))
       /\ Answered(GetShowResp(t, FirstId))
       /\ Answered(GetIndexResp(t, NoParam, 0))
       /\ \A pub \in BOOLEAN : Answered(SetPublicResp(t, FirstId, pub))
       /\ Answered(GetFileResp(t, FirstId, NoSize))

\* C17, the handlers that keep their store calls inside try: /users and
\* /connect answer 500 when a store fails.
C17_CaughtInTry ==
  /\ \A e \in Emails, p \in Passwords : Answered(PostNewResp(e, p))
  /\ \A h \in AuthHeaders : Answered(GetConnectResp(h))
  /\ dbFails => \A e \in Emails, p \in Passwords : PostNewResp(e, p).status = 500


\* ------------------------------------------------------------------
\* C18: isAlive() is true only if the connect succeeded and the client holds
\* a usable database handle; in particular it is not true after a failed
\* connect.
C18_IsAliveVerified ==
  isAlive => dbc.phase = "resolved" /\ dbc.db = "handle"

\* C18, up to the timer: while the connect is pending, after it succeeded,
\* and after it failed as long as the timer has not fired, isAlive() tells
\* whether the connect succeeded.
C18_UntilTimer ==
  \/ dbc.phase = "rejected" /\ ~dbc.timer
  \/ isAlive = (dbc.phase = "resolved" /\ dbc.db = "handle")


\* ------------------------------------------------------------------
\* C19, the answer: for every node, every authenticated user who does not
\* own it, and both values, publish and unpublish of the node's id are
\* answered 404, the very answer given for an id that names no node.
C19_NonOwnerNotFound ==
  \A i \in 1..Len(files) : \A t \in Tokens : Auth(t) # Nil /\ ~IsOwner(t, i) =>
    \A id \in Spellings(i), value \in BOOLEAN :
      /\ SetPublicResp(t, id, value) = Err(404, "Not found")
      /\ SetPublicResp(t, id, value) = SetPublicResp(t, AbsentId, value)

\* C19, the effect: a publish or unpublish step that is answered 200 was
\* asked by the owner of the node it names and changes that node's isPublic
\* and nothing else; answered otherwise, it leaves every node as it was.
C19_PublishStep ==
  last'.op \in {"putPublish", "putUnpublish"} =>
    IF last'.status = 200
    THEN \E i \in 1..Len(files) :
           /\ Names(last'.id, i) /\ IsOwner(last'.token, i)
           /\ files' = [files EXCEPT ![i].isPublic = (last'.op = "putPublish")]
    ELSE files' = files

\* C19: only the owner can change a node's visibility; for anyone else the
\* request is answered 404 as for an absent id and the node stays unchanged.
C19_OwnerOnly == []C19_NonOwnerNotFound /\ [][C19_PublishStep]_vars

\* C19's case: a user with a session has just asked to publish the other
\* user's private node and got 404; the node is still private.
C19_Witness ==
  /\ last.op = "putPublish" /\ last.status = 404
  /\ Auth(last.token) # Nil
  /\ \E i \in 1..Len(files) :
       Names(last.id, i) /\ ~IsOwner(last.token, i) /\ files[i].isPublic = FALSE

\* ------------------------------------------------------------------
\* The answer the checks of a create give in the order authentication, name,
\* kind, content, parent: the first check that fails, or none.
FirstFailure(token, b) ==
  IF Auth(token) = Nil THEN Err(401, "Unauthorized")
  ELSE IF b.name = NoName THEN Err(400, "Missing name")
  ELSE IF b.type \notin {"folder", "file", "image"} THEN Err(400, "Missing type")
  ELSE IF b.type # "folder" /\ b.data = NoData THEN Err(400, "Missing data")
  ELSE IF InvalidParent(b.parentId)
       THEN IF \E j \in 1..Len(files) : Names(b.parentId, j)
            THEN Err(400, "Parent is not a folder")
            ELSE Err(400, "Parent not found")
  ELSE Nil

\* C20: for every requester and every body, with one defect or several, the
\* answer of a create is that of the first failing check in the order
\* authentication, name, kind, content, parent; when a check fails the create
\* adds no document, writes no blob and enqueues no job; when none fails it is
\* answered 201.
C20_CheckOrder ==
  \A t \in AnyToken, b \in Bodies :
    IF FirstFailure(t, b) # Nil
    THEN /\ PostUploadResp(t, b, TRUE) = FirstFailure(t, b)
         /\ UploadFiles(t, b, TRUE) = files
         /\ UploadDisk(t, b, TRUE) = disk
         /\ UploadQueue(t, b, TRUE) = queue
    ELSE PostUploadResp(t, b, TRUE).status = 201

\* C20's case: a create by a user with a session, whose body has no name and
\* more defects behind it, has just been answered "Missing name", in a state
\* where a folder and a file or image exist.
C20_Witness ==
  /\ last.op = "postUpload" /\ last.status = 400 /\ last.body = [error |-> "Missing name"]
  /\ Auth(last.token) # Nil
  /\ \E b \in Bodies : /\ b.name = NoName /\ b.type \notin acceptedTypes
                       /\ InvalidParent(b.parentId)
                       /\ PostUploadResp(last.token, b, TRUE).status = last.status
                       /\ PostUploadResp(last.token, b, TRUE).body = last.body
  /\ \E i \in 1..Len(files) : files[i].type = "folder"
  /\ Blobs # {}


\* ------------------------------------------------------------------
\* C21, the updates: a step that changes a document of the collection is the
\* find-and-update of one request, made with the owner's user id, and sets
\* isPublic of that one document to that request's value; nothing else of any
\* document changes. The visibility of a node is therefore the value of the
\* update applied last.
C21_AtomicUpdate ==
  /\ \A i \in 1..Len(files) :
       /\ i <= Len(files')
       /\ [files'[i] EXCEPT !.isPublic = files[i].isPublic] = files[i]
  /\ SubSeq(files', 1, Len(files)) # files =>
       \E r \in Requests : \E i \in 1..Len(files) :
         /\ inflight[r] # Nil /\ inflight[r].phase = "update"
         /\ inflight'[r].phase = "reply"
         /\ Names(inflight[r].fileId, i)
         /\ inflight[r].userId = toString(files[i].userId)
         /\ files' = [files EXCEPT ![i].isPublic = inflight[r].value]
         /\ inflight'[r].file.isPublic = files'[i].isPublic

\* C21, the responses: a publish answered 200 reports isPublic true and an
\* unpublish answered 200 reports false, the visibility right after the
\* request's own update, whatever other requests have done to the node since;
\* the other fields reported are the node's.
C21_OwnValueReported ==
  last.op \in {"putPublish", "putUnpublish"} /\ last.status = 200 =>
    /\ last.body.isPublic = (last.op = "putPublish")
    /\ \E i \in 1..Len(files) :
         /\ Names(last.id, i)
         /\ last.body = [FileJson(FileOid(i)) EXCEPT !.isPublic = (last.op = "putPublish")]

\* C21: no lost updates under concurrent toggles of one node by its owner.
C21_NoLostUpdate == []C21_OwnValueReported /\ [][C21_AtomicUpdate]_vars

\* C21's case: a publish and an unpublish of the owner interleaved: the
\* publish was applied first and answered last, so its response reports
\* true while the node, unpublished in between, is private.
C21_Witness ==
  /\ last.op = "putPublish" /\ last.status = 200 /\ last.body.isPublic = TRUE
  /\ Names(last.id, 1) /\ IsOwner(last.token, 1)
  /\ files[1].isPublic = FALSE
  /\ \E r \in Requests : /\ inflight[r] # Nil /\ inflight[r].op = "putUnpublish"
                         /\ inflight[r].phase = "reply" /\ inflight[r].file # Nil


\* ------------------------------------------------------------------
\* C22, the scope: for every node, public or private, and every user with a
\* session who is not its owner, GET /files/:id answers 404, no page of
\* GET /files for any parentId holds the node or any node of another user,
\* and publish and unpublish answer 404.
C22_Scoped ==
  \A i \in 1..Len(files) : \A t \in Tokens : Auth(t) # Nil /\ ~IsOwner(t, i) =>
    /\ \A id \in Spellings(i) :
         /\ GetShowResp(t, id).status = 404
         /\ \A value \in BOOLEAN : SetPublicResp(t, id, value).status = 404
    /\ \A q \in QueryInputs, p \in {0, 1} :
         /\ GetIndexResp(t, q, p).status = 200
         /\ \A k \in 1..Len(GetIndexResp(t, q, p).body) :
              /\ GetIndexResp(t, q, p).body[k].userId = Auth(t)
              /\ GetIndexResp(t, q, p).body[k].id # toString(FileOid(i))

\* C22, the owner: the owner of a new document is the user the session of
\* the creating request's token names; the owner of a document never
\* changes, and a step that changes a document was asked by its owner.
C22_OwnerStep ==
  /\ \A i \in 1..Len(files) :
       /\ i <= Len(files')
       /\ files'[i].userId = files[i].userId
       /\ files'[i] # files[i] => IsOwner(last'.token, i)
  /\ Len(files') # Len(files) =>
       /\ Len(files') = Len(files) + 1
       /\ last'.op = "postUpload" /\ last'.status = 201
       /\ Auth(last'.token) # Nil
       /\ toString(files'[Len(files')].userId) = Auth(last'.token)
       /\ last'.body.userId = Auth(last'.token)

C23_ParentSameOwner ==
  \A i \in 1..Len(files) : files[i].parentId # Root =>
    \A j \in 1..Len(files) : Names(files[i].parentId, j) =>
      files[j].userId = files[i].userId


====
